---- MODULE Spec2Model ----
(***************************************************************************)
(* State-machine model of misopy/sashimi_plot/plot.py: the command line    *)
(* entry point main() and the three plotting paths plot_insert_len,        *)
(* plot_posterior and plot_event.  One run of the model is one process     *)
(* invocation.  Paths are sequences of path components; None is <<>>.      *)
(***************************************************************************)
EXTENDS Naturals, Sequences, FiniteSets

\* ------------------------------------------------------------------ bounds
MaxDistLen == 1
MaxArgs == 4

\* ------------------------------------------------------- input universes
None == <<>>
Cwd == <<"/", "work">>
Home == <<"/", "home">>
Flags == {"--plot-posterior", "--plot-insert-len", "--plot-bf-dist",
          "--plot-event", "--output-dir"}
Events == {"E1", "E2"}
ArtifactPaths == {<<"/", "data", "a.pickle">>, <<"/", "data", "b.pickle">>}
InsertLens == {100, 150}
InsertLenArg == <<"data", "sample.insert_len">>
SettingsArg == <<"~", "settings.txt">>
MisoArg == <<"data", "event.miso">>
BfArg == <<"data", "event.miso_bf">>
PickleDirArg == <<"/", "pickles">>
OutputDirArg == <<"out">>
PathOrder == <<"insert_len", "posterior", "event">>

\* --------------------------------------------------------- path functions
\* os.path.expanduser: a leading "~" component is replaced by the home dir.
ExpandUser(p) == IF Len(p) > 0 /\ p[1] = "~" THEN Home \o Tail(p) ELSE p

\* os.path.abspath: a relative path is resolved against the working dir.
AbsPath(p) == IF Len(p) > 0 /\ p[1] = "/" THEN p ELSE Cwd \o p

\* os.path.abspath(os.path.expanduser(p)) as main applies it to its arguments
Normalize(p) == AbsPath(ExpandUser(p))

\* os.path.join(dir, name)
Join(dir, name) == Append(dir, name)

\* os.path.basename
Basename(p) == p[Len(p)]

\* genes_filename of plot_event
GenesFilename(pickle_dir) == Join(pickle_dir, "genes_to_filenames.shelve")

\* ------------------------------------------------------------ the parser
\* The positional arguments that follow a flag on the command line.
ArgsOf(flag, ev) ==
  CASE flag = "--plot-posterior"  -> <<MisoArg, SettingsArg>>
    [] flag = "--plot-insert-len" -> <<InsertLenArg, SettingsArg>>
    [] flag = "--plot-bf-dist"    -> <<BfArg, SettingsArg>>
    [] flag = "--plot-event"      -> <<ev, PickleDirArg, SettingsArg>>
    [] flag = "--output-dir"      -> <<OutputDirArg>>

\* Variant of DestOf: the reserved flag stored under the posterior's dest.
DestOf_BfAsPosterior(flag) ==
  CASE flag = "--plot-posterior"  -> "plot_posterior"
    [] flag = "--plot-insert-len" -> "plot_insert_len"
    [] flag = "--plot-bf-dist"    -> "plot_posterior"
    [] flag = "--plot-event"      -> "plot_event"
    [] flag = "--output-dir"      -> "output_dir"

\* dest= of each add_option
DestOf(flag) ==
  CASE flag = "--plot-posterior"  -> "plot_posterior"
    [] flag = "--plot-insert-len" -> "plot_insert_len"
    [] flag = "--plot-bf-dist"    -> "plot_bf_dist"
    [] flag = "--plot-event"      -> "plot_event"
    [] flag = "--output-dir"      -> "output_dir"

\* default=None of every option
DefaultOptions ==
  [plot_posterior |-> None, plot_insert_len |-> None, plot_bf_dist |-> None,
   plot_event |-> None, output_dir |-> None]

\* parser.parse_args(): the flags are consumed left to right, each storing
\* its arguments under its dest.
RECURSIVE ParseArgs(_, _, _)
ParseArgs(av, ev, opts) ==
  IF av = <<>> THEN opts
  ELSE ParseArgs(Tail(av), ev,
                 [opts EXCEPT ![DestOf(Head(av))] = ArgsOf(Head(av), ev)])

\* The option that main tests before it calls a path.
OptionOf(p) ==
  CASE p = "insert_len" -> "plot_insert_len"
    [] p = "posterior"  -> "plot_posterior"
    [] p = "event"      -> "plot_event"

\* `options.<path> != None' of main
Requested(opts, p) == opts[OptionOf(p)] # None

\* ------------------------------------------------------------- exceptions
NoError == [kind |-> "none", path |-> "", file |-> None, event |-> "",
            dir |-> None]

\* "Cannot find file %s. Are you sure the events were indexed ..."
IndexMissingError(genes_filename) ==
  [kind |-> "index_missing", path |-> "event", file |-> genes_filename,
   event |-> "", dir |-> None]

\* Variant of EventMissingError: the missing key reported with the message
\* of the missing index file.
EventMissingError_AsIndexMissing(event_name, pickle_dir) ==
  IndexMissingError(Join(pickle_dir, "genes_to_filenames.shelve"))

\* "Event %s not found in pickled directory %s. ..."
EventMissingError(event_name, pickle_dir) ==
  [kind |-> "event_missing", path |-> "event", file |-> None,
   event |-> event_name, dir |-> pickle_dir]

\* An exception raised by a collaborator or by the interpreter.
OtherError(kind, p, f) ==
  [kind |-> kind, path |-> p, file |-> f, event |-> "", dir |-> None]

VARIABLES argv, event_arg, files, dirs, shelf,
          options, output_dir, pc, exitStatus, error, stdout,
          started, completed, log, checked,
          insert_dist, stats, pickle_filename, outputs, renderCalls,
          storeOpen, storeOpens, dirsCreated

env == <<argv, event_arg, files, shelf>>
vars == <<argv, event_arg, files, dirs, shelf,
          options, output_dir, pc, exitStatus, error, stdout,
          started, completed, log, checked,
          insert_dist, stats, pickle_filename, outputs, renderCalls,
          storeOpen, storeOpens, dirsCreated>>

\* --------------------------------------------------------------- set-up
RECURSIVE SeqsNoRep(_, _)
SeqsNoRep(S, n) ==
  IF n = 0 THEN {<<>>}
  ELSE {<<>>} \cup
       UNION {{<<x>> \o s : s \in SeqsNoRep(S \ {x}, n - 1)} : x \in S}

IndexFile == GenesFilename(Normalize(PickleDirArg))

\* The files a flag's path reads: the file system of a run is drawn from the
\* files its command line names (no other file is ever looked at).
FilesOf(flag) ==
  CASE flag = "--plot-posterior"  -> {Normalize(MisoArg), Normalize(SettingsArg)}
    [] flag = "--plot-insert-len" -> {Normalize(InsertLenArg),
                                      Normalize(SettingsArg)}
    [] flag = "--plot-event"      -> {IndexFile, Normalize(SettingsArg)}
                                       \cup ArtifactPaths
    [] OTHER                      -> {}
CandidateFiles(av) == UNION {FilesOf(av[i]) : i \in DOMAIN av}
Shelves == UNION {[D -> ArtifactPaths] : D \in SUBSET Events}
Dists == UNION {[1..n -> InsertLens] : n \in 0..MaxDistLen}

Init ==
  /\ argv \in SeqsNoRep(Flags, MaxArgs)
  /\ event_arg \in Events
  /\ (event_arg # "E1" => \E i \in DOMAIN argv : argv[i] = "--plot-event")
  /\ files \in SUBSET CandidateFiles(argv)
  /\ dirs \in SUBSET {Normalize(OutputDirArg)}
  /\ shelf \in Shelves
  /\ (IndexFile \notin files => shelf = <<>>)
  /\ \A f \in files \cap ArtifactPaths : \E k \in DOMAIN shelf : shelf[k] = f
  /\ options = DefaultOptions
  /\ output_dir = None
  /\ pc = "parse"
  /\ exitStatus = 0
  /\ error = NoError
  /\ stdout = <<>>
  /\ started = <<>>
  /\ completed = {}
  /\ log = <<>>
  /\ checked = {}
  /\ insert_dist = <<>>
  /\ stats = [num_pairs |-> 0, total |-> 0]
  /\ pickle_filename = None
  /\ outputs = <<>>
  /\ renderCalls = <<>>
  /\ storeOpen = FALSE
  /\ storeOpens = 0
  /\ dirsCreated = {}

\* ------------------------------------------------------ control transfer
\* Variant of AfterPath: the event path dispatched before the posterior path.
AfterPath_EventFirst(p) ==
  CASE p = "insert_len" -> "m_event"
    [] p = "event"      -> "m_posterior"
    [] p = "posterior"  -> "exit"

\* The statement of main that follows the call of path p.
AfterPath(p) ==
  CASE p = "insert_len" -> "m_posterior"
    [] p = "posterior"  -> "m_event"
    [] p = "event"      -> "exit"

\* Variant of Propagate: the failure is recorded and main goes on with the
\* next path.
Propagate_Continue(err) ==
  /\ pc' = AfterPath(err.path)
  /\ exitStatus' = 1
  /\ error' = err

\* An exception nobody catches: main has no try/except, so the interpreter
\* prints the traceback and the process ends with status 1.
Propagate(err) ==
  /\ pc' = "exit"
  /\ exitStatus' = 1
  /\ error' = err

\* First statement of path p.
EntryOf(p) ==
  CASE p = "insert_len" -> "il_sashimi"
    [] p = "posterior"  -> "post_load"
    [] p = "event"      -> "pe_check"

\* `if options.<p> != None: <p>(...)' of main
Dispatch(p) ==
  /\ IF Requested(options, p)
       THEN /\ started' = Append(started, p)
            /\ pc' = EntryOf(p)
       ELSE /\ pc' = AfterPath(p)
            /\ UNCHANGED started
  /\ UNCHANGED <<env, dirs, options, output_dir, exitStatus, error, stdout,
                 completed, log, checked, insert_dist, stats, pickle_filename,
                 outputs, renderCalls, storeOpen, storeOpens, dirsCreated>>

\* Normal return of path p to main.
Return(p) ==
  /\ completed' = completed \cup {p}
  /\ pc' = AfterPath(p)
  /\ UNCHANGED <<exitStatus, error>>

\* Fall through to the next statement of the same function.
Continue(next) ==
  /\ pc' = next
  /\ UNCHANGED <<exitStatus, error>>

Step(p, s) == log' = Append(log, <<p, s>>)

\* ------------------------------------------------------------------ main
\* (options, args) = parser.parse_args()
MainParse ==
  /\ pc = "parse"
  /\ options' = ParseArgs(argv, event_arg, DefaultOptions)
  /\ pc' = "m_outdir"
  /\ UNCHANGED <<env, dirs, output_dir, exitStatus, error, stdout, started,
                 completed, log, checked, insert_dist, stats, pickle_filename,
                 outputs, renderCalls, storeOpen, storeOpens, dirsCreated>>

\* if options.output_dir == None: print "Error: need --output-dir"; return
MainCheckOutputDir ==
  /\ pc = "m_outdir"
  /\ IF options.output_dir = None
       THEN /\ stdout' = Append(stdout, "Error: need --output-dir")
            /\ pc' = "exit"
       ELSE /\ pc' = "m_mkdir"
            /\ UNCHANGED stdout
  /\ UNCHANGED <<env, dirs, options, output_dir, exitStatus, error, started,
                 completed, log, checked, insert_dist, stats, pickle_filename,
                 outputs, renderCalls, storeOpen, storeOpens, dirsCreated>>

\* output_dir = abspath(expanduser(...)); makedirs unless it is a directory
MainMakeDirs ==
  /\ pc = "m_mkdir"
  /\ output_dir' = Normalize(options.output_dir[1])
  /\ IF output_dir' \notin dirs
       THEN /\ dirs' = dirs \cup {output_dir'}
            /\ dirsCreated' = dirsCreated \cup {output_dir'}
       ELSE UNCHANGED <<dirs, dirsCreated>>
  /\ pc' = "m_insert"
  /\ UNCHANGED <<env, options, exitStatus, error, stdout, started, completed,
                 log, checked, insert_dist, stats, pickle_filename, outputs,
                 renderCalls, storeOpen, storeOpens>>

MainInsertLen == pc = "m_insert" /\ Dispatch("insert_len")

MainPosterior == pc = "m_posterior" /\ Dispatch("posterior")

MainEvent == pc = "m_event" /\ Dispatch("event")

\* ------------------------------------------------------- plot_insert_len
\* Arguments main passes to plot_insert_len.
InsertLenFilename == Normalize(options.plot_insert_len[1])
InsertLenSettings == Normalize(options.plot_insert_len[2])

\* sashimi_obj.output_filename: the plot named after the input's base name,
\* under the output directory.
OutputFilename(dir, plot_name) == Join(dir, plot_name)

RECURSIVE Sum(_)
Sum(d) == IF d = <<>> THEN 0 ELSE Head(d) + Sum(Tail(d))

\* pe_utils.compute_insert_len_stats: the read-pair count and the total from
\* which the mean is taken.
ComputeInsertLenStats(d) == [num_pairs |-> Len(d), total |-> Sum(d)]

\* plot_name = basename(...); sashimi_obj = Sashimi(...); settings, num_bins,
\* output_filename.  The constructor reads the settings file.
IlSashimi ==
  /\ pc = "il_sashimi"
  /\ IF InsertLenSettings \in files
       THEN /\ Step("insert_len", "load_settings")
            /\ Continue("il_subplot")
       ELSE /\ Propagate(OtherError("NotFoundError", "insert_len",
                                    InsertLenSettings))
            /\ UNCHANGED log
  /\ UNCHANGED <<env, dirs, options, output_dir, stdout, started, completed,
                 checked, insert_dist, stats, pickle_filename, outputs,
                 renderCalls, storeOpen, storeOpens, dirsCreated>>

\* s = plt.subplot(1, 1, 1) and the three progress lines
IlSubplot ==
  /\ pc = "il_subplot"
  /\ Step("insert_len", "axes")
  /\ stdout' = Append(stdout, "Plotting insert length distribution...")
  /\ Continue("il_load")
  /\ UNCHANGED <<env, dirs, options, output_dir, started, completed,
                 checked, insert_dist, stats, pickle_filename, outputs,
                 renderCalls, storeOpen, storeOpens, dirsCreated>>

\* insert_dist, params = pe_utils.load_insert_len(insert_len_filename)
IlLoad ==
  /\ pc = "il_load"
  /\ IF InsertLenFilename \in files
       THEN /\ \E d \in Dists : insert_dist' = d
            /\ Step("insert_len", "load")
            /\ Continue("il_stats")
       ELSE /\ Propagate(OtherError("NotFoundError", "insert_len",
                                    InsertLenFilename))
            /\ UNCHANGED <<insert_dist, log>>
  /\ UNCHANGED <<env, dirs, options, output_dir, stdout, started, completed,
                 checked, stats, pickle_filename, outputs,
                 renderCalls, storeOpen, storeOpens, dirsCreated>>

\* mean, sdev, dispersion, num_pairs = compute_insert_len_stats(insert_dist).
\* On an empty distribution the collaborator either rejects the input or
\* hands back vacuous statistics.
IlStats ==
  /\ pc = "il_stats"
  /\ \/ /\ stats' = ComputeInsertLenStats(insert_dist)
        /\ Step("insert_len", "compute")
        /\ Continue("il_minmax")
     \/ /\ insert_dist = <<>>
        /\ Propagate(OtherError("InvalidInputError", "insert_len", None))
        /\ UNCHANGED <<stats, log>>
  /\ UNCHANGED <<env, dirs, options, output_dir, stdout, started, completed,
                 checked, insert_dist, pickle_filename, outputs,
                 renderCalls, storeOpen, storeOpens, dirsCreated>>

\* Variant of IlMinMax: the two min/max lines left out.
IlMinMax_Skipped ==
  /\ pc = "il_minmax"
  /\ Continue("il_draw")
  /\ UNCHANGED <<env, dirs, options, output_dir, stdout, started, completed,
                 log, checked, insert_dist, stats, pickle_filename, outputs,
                 renderCalls, storeOpen, storeOpens, dirsCreated>>

\* print min(insert_dist), max(insert_dist): min() of an empty sequence
\* raises ValueError.
IlMinMax ==
  /\ pc = "il_minmax"
  /\ IF insert_dist = <<>>
       THEN /\ Propagate(OtherError("ValueError", "insert_len", None))
            /\ UNCHANGED stdout
       ELSE /\ stdout' = Append(stdout, "min insert, max insert")
            /\ Continue("il_draw")
  /\ UNCHANGED <<env, dirs, options, output_dir, started, completed, log,
                 checked, insert_dist, stats, pickle_filename, outputs,
                 renderCalls, storeOpen, storeOpens, dirsCreated>>

\* plt.title, plt.hist, axes_square, plt.text, plt.xlabel, plt.ylabel: the
\* histogram is drawn; any of the calls into the engine may raise.
IlDraw ==
  /\ pc = "il_draw"
  /\ \/ /\ Step("insert_len", "draw")
        /\ Continue("il_save")
     \/ /\ Propagate(OtherError("RenderError", "insert_len", None))
        /\ UNCHANGED log
  /\ UNCHANGED <<env, dirs, options, output_dir, stdout, started, completed,
                 checked, insert_dist, stats, pickle_filename, outputs,
                 renderCalls, storeOpen, storeOpens, dirsCreated>>

\* sashimi_obj.save_plot(), the last statement: the function returns.
IlSave ==
  /\ pc = "il_save"
  /\ outputs' = Append(outputs,
                  [file |-> OutputFilename(output_dir,
                                           Basename(InsertLenFilename)),
                   by |-> "insert_len"])
  /\ Step("insert_len", "persist")
  /\ Return("insert_len")
  /\ UNCHANGED <<env, dirs, options, output_dir, stdout, started,
                 checked, insert_dist, stats, pickle_filename,
                 renderCalls, storeOpen, storeOpens, dirsCreated>>

\* -------------------------------------------------------- plot_posterior
MisoFilename == Normalize(options.plot_posterior[1])

\* load_samples(miso_filename) and parse_sampler_params(miso_filename)
PostLoadSamples ==
  /\ pc = "post_load"
  /\ IF MisoFilename \in files
       THEN /\ Step("posterior", "load")
            /\ Continue("post_plotter")
       ELSE /\ Propagate(OtherError("NotFoundError", "posterior",
                                    MisoFilename))
            /\ UNCHANGED log
  /\ UNCHANGED <<env, dirs, options, output_dir, stdout, started, completed,
                 checked, insert_dist, stats, pickle_filename, outputs,
                 renderCalls, storeOpen, storeOpens, dirsCreated>>

\* sp = SamplesPlotter(samples, params)
PostSamplesPlotter ==
  /\ pc = "post_plotter"
  /\ Step("posterior", "plotter")
  /\ Continue("post_intervals")
  /\ UNCHANGED <<env, dirs, options, output_dir, stdout, started, completed,
                 checked, insert_dist, stats, pickle_filename, outputs,
                 renderCalls, storeOpen, storeOpens, dirsCreated>>

\* if with_intervals != None: with_intervals is assigned further down in the
\* function (both branches of this very if), so it is a local name, and it
\* is read here before any assignment: UnboundLocalError.  It is not a
\* parameter either.  Nothing after this line of plot_posterior runs.
PostIntervals ==
  /\ pc = "post_intervals"
  /\ Propagate(OtherError("UnboundLocalError", "posterior", None))
  /\ UNCHANGED <<env, dirs, options, output_dir, stdout, started, completed,
                 log, checked, insert_dist, stats, pickle_filename, outputs,
                 renderCalls, storeOpen, storeOpens, dirsCreated>>

\* ------------------------------------------------------------ plot_event
EventName == options.plot_event[1]
PickleDir == Normalize(options.plot_event[2])
EventSettings == Normalize(options.plot_event[3])

\* os.path.isfile
IsFile(f) == f \in files

\* Variant of Lookup: the value of some key of the store, not of the key
\* asked for.
Lookup_AnyKey(store, event_name) ==
  store[CHOOSE k \in DOMAIN store :
          \A k2 \in DOMAIN store : store[k2] = store[event_name] \/ store[k] # store[event_name]]

\* event_to_filenames[event_name]
Lookup(store, event_name) == store[event_name]

\* genes_filename = join(pickle_dir, ...); if not isfile: raise
PeCheckIndex ==
  /\ pc = "pe_check"
  /\ IF IsFile(GenesFilename(PickleDir))
       THEN /\ checked' = checked \cup {<<"event", GenesFilename(PickleDir)>>}
            /\ Continue("pe_open")
       ELSE /\ Propagate(IndexMissingError(GenesFilename(PickleDir)))
            /\ UNCHANGED checked
  /\ UNCHANGED <<env, dirs, options, output_dir, stdout, started, completed,
                 log, insert_dist, stats, pickle_filename, outputs,
                 renderCalls, storeOpen, storeOpens, dirsCreated>>

\* event_to_filenames = shelve.open(genes_filename)
PeOpen ==
  /\ pc = "pe_open"
  /\ storeOpen' = TRUE
  /\ storeOpens' = storeOpens + 1
  /\ Step("event", "open")
  /\ Continue("pe_lookup")
  /\ UNCHANGED <<env, dirs, options, output_dir, stdout, started, completed,
                 checked, insert_dist, stats, pickle_filename, outputs,
                 renderCalls, dirsCreated>>

\* if event_name not in event_to_filenames: raise; else
\* pickle_filename = event_to_filenames[event_name].  Neither branch closes
\* the store.
PeLookup ==
  /\ pc = "pe_lookup"
  /\ IF EventName \in DOMAIN shelf
       THEN /\ pickle_filename' = Lookup(shelf, EventName)
            /\ Step("event", "lookup")
            /\ Continue("pe_render")
       ELSE /\ Propagate(EventMissingError(EventName, PickleDir))
            /\ UNCHANGED <<pickle_filename, log>>
  /\ UNCHANGED <<env, dirs, options, output_dir, stdout, started, completed,
                 checked, insert_dist, stats, outputs,
                 renderCalls, storeOpen, storeOpens, dirsCreated>>

\* The call the renderer receives.
RenderCall(settings_filename, pickle, event_name, dir) ==
  [settings |-> settings_filename, pickle |-> pickle, event |-> event_name,
   output_dir |-> dir]

\* plot_density_from_file(settings_filename, pickle_filename, event_name,
\* output_dir), the last statement.  The renderer reads the artifact and the
\* settings and writes the plot; it fails if either is missing.  plot_event
\* never calls close(): after a normal return the shelf is closed only if
\* the runtime finalises the dropped local at once, and after a raise the
\* traceback keeps the frame, and with it the open shelf, alive.
PeRender ==
  /\ pc = "pe_render"
  /\ renderCalls' = Append(renderCalls,
                      RenderCall(EventSettings, pickle_filename, EventName,
                                 output_dir))
  /\ Step("event", "render")
  /\ IF IsFile(pickle_filename) /\ IsFile(EventSettings)
       THEN /\ outputs' = Append(outputs,
                            [file |-> OutputFilename(output_dir, EventName),
                             by |-> "event"])
            /\ storeOpen' \in BOOLEAN
            /\ Return("event")
       ELSE /\ Propagate(OtherError("NotFoundError", "event",
                           IF IsFile(pickle_filename) THEN EventSettings
                           ELSE pickle_filename))
            /\ UNCHANGED <<outputs, storeOpen, completed>>
  /\ UNCHANGED <<env, dirs, options, output_dir, stdout, started,
                 checked, insert_dist, stats, pickle_filename,
                 storeOpens, dirsCreated>>

\* ------------------------------------------------------- the whole program
Next ==
  \/ MainParse
  \/ MainCheckOutputDir
  \/ MainMakeDirs
  \/ MainInsertLen
  \/ IlSashimi
  \/ IlSubplot
  \/ IlLoad
  \/ IlStats
  \/ IlMinMax
  \/ IlDraw
  \/ IlSave
  \/ MainPosterior
  \/ PostLoadSamples
  \/ PostSamplesPlotter
  \/ PostIntervals
  \/ MainEvent
  \/ PeCheckIndex
  \/ PeOpen
  \/ PeLookup
  \/ PeRender

Spec == Init /\ [][Next]_vars

TypeOK ==
  /\ pc \in {"parse", "m_outdir", "m_mkdir", "m_insert", "il_sashimi",
             "il_subplot", "il_load", "il_stats", "il_minmax", "il_draw",
             "il_save", "m_posterior", "post_load", "post_plotter",
             "post_intervals", "m_event", "pe_check", "pe_open", "pe_lookup",
             "pe_render", "exit"}
  /\ exitStatus \in {0, 1}
  /\ storeOpen \in BOOLEAN
  /\ storeOpens \in 0..1

\* ============================================================ properties
Paths == {"insert_len", "posterior", "event"}
HasFlag(f) == \E i \in DOMAIN argv : argv[i] = f
FlagOf(p) ==
  CASE p = "insert_len" -> "--plot-insert-len"
    [] p = "posterior"  -> "--plot-posterior"
    [] p = "event"      -> "--plot-event"
Rank(p) == CHOOSE i \in DOMAIN PathOrder : PathOrder[i] = p
StartedSet == {started[i] : i \in DOMAIN started}
StepsOf(p) == SelectSeq(log, LAMBDA e : e[1] = p)
OutputsBy(p) == {i \in DOMAIN outputs : outputs[i].by = p}
PosOf(p, s) == {i \in DOMAIN log : log[i] = <<p, s>>}
Before(p, s1, s2) ==
  \A j \in PosOf(p, s2) : \E i \in PosOf(p, s1) : i < j
SettingsFile == Normalize(SettingsArg)
RequiredInputs(p) ==
  CASE p = "insert_len" -> {Normalize(InsertLenArg), SettingsFile}
    [] p = "posterior"  -> {Normalize(MisoArg), SettingsFile}
    [] p = "event"      -> {IndexFile, SettingsFile}

\* C1: plot_event's two not-found conditions are distinct and ordered.  A
\* missing index file gives the index-missing error naming that file, with
\* the store never opened, whatever the event; an existing index without the
\* key gives the event-missing error naming the event and the directory; in
\* neither case is the renderer called.
C1_NotFoundDistinct ==
  /\ error.kind = "index_missing" =>
       /\ ~IsFile(IndexFile)
       /\ error.file = IndexFile
       /\ storeOpens = 0 /\ ~storeOpen
       /\ renderCalls = <<>>
  /\ error.kind = "event_missing" =>
       /\ IsFile(IndexFile)
       /\ event_arg \notin DOMAIN shelf
       /\ error.event = event_arg
       /\ error.dir = Normalize(PickleDirArg)
       /\ renderCalls = <<>>
  /\ (pc = "exit" /\ "event" \in StartedSet /\ ~IsFile(IndexFile)) =>
       error.kind = "index_missing"
  /\ (pc = "exit" /\ "event" \in StartedSet /\ IsFile(IndexFile)
        /\ event_arg \notin DOMAIN shelf) =>
       error.kind = "event_missing"

C1_Witness ==
  /\ pc = "exit"
  /\ error.kind = "event_missing"
  /\ DOMAIN shelf # {}
  /\ storeOpens = 1

\* C2: whenever plot_event has opened the event index, the store is closed
\* again by the time plot_event is left, on the successful path and on the
\* event-not-found path alike.
C2_StoreReleasedOnExit ==
  pc \notin {"pe_lookup", "pe_render"} => ~storeOpen

\* C3: main without --output-dir reports the error and ends with a non-zero
\* exit status, runs none of the paths and creates no directory.
C3_NoOutputDirFails ==
  (pc = "exit" /\ ~HasFlag("--output-dir")) =>
    /\ exitStatus # 0
    /\ stdout = <<"Error: need --output-dir">>
    /\ started = <<>> /\ log = <<>>
    /\ dirsCreated = {}

\* C4: each path checks that all its required input files exist before any
\* load, compute or render step; a path with a missing required input does
\* none of those steps and fails with NotFoundError.
C4_ValidateBeforeWork ==
  \A p \in Paths :
    /\ StepsOf(p) # <<>> =>
         \A f \in RequiredInputs(p) : <<p, f>> \in checked
    /\ (\E f \in RequiredInputs(p) : ~IsFile(f)) => StepsOf(p) = <<>>
    /\ (pc = "exit" /\ p \in StartedSet
          /\ \E f \in RequiredInputs(p) : ~IsFile(f)) =>
         error.kind \in {"NotFoundError", "index_missing"}

\* C5: the posterior path with an existing sample-set file and settings file
\* runs to completion: it reaches the render call sp.plot and then persists
\* exactly one output file.
C5_PosteriorCompletes ==
  (pc = "exit" /\ "posterior" \in StartedSet
     /\ \A f \in RequiredInputs("posterior") : IsFile(f)) =>
    /\ "posterior" \in completed
    /\ PosOf("posterior", "render") # {}
    /\ Cardinality(OutputsBy("posterior")) = 1

\* C6: a failure terminates the invocation.  The step that raises, and every
\* step that could follow it, starts no path, leaves the written output
\* files as they are, and leaves the process ended with a non-zero status.
C6_FailureTerminates ==
  [][error' # NoError =>
       /\ pc' = "exit" /\ exitStatus' = 1
       /\ started' = started
       /\ outputs' = outputs
       /\ started # <<>> /\ error'.path = started[Len(started)]]_vars

C6_Witness ==
  /\ error # NoError
  /\ outputs # <<>>
  /\ \E p \in Paths : HasFlag(FlagOf(p)) /\ p \notin StartedSet

C8_ResolveExact ==
  /\ Len(renderCalls) <= 1
  /\ \A i \in DOMAIN renderCalls :
       /\ event_arg \in DOMAIN shelf
       /\ renderCalls[i] = [settings |-> SettingsFile,
                            pickle |-> shelf[event_arg],
                            event |-> event_arg,
                            output_dir |-> Normalize(OutputDirArg)]
  /\ (pc = "exit" /\ "event" \in StartedSet /\ event_arg \in DOMAIN shelf) =>
       Len(renderCalls) = 1

C8_Witness ==
  /\ pc = "exit"
  /\ Len(renderCalls) = 1
  /\ Cardinality(DOMAIN shelf) = 2
  /\ shelf["E1"] # shelf["E2"]
  /\ ~IsFile(shelf[event_arg])

\* What C9 holds of the insert-length path apart from where rendering
\* starts: the output is saved at most once, exactly when the path returns
\* normally, as the last of its steps; a run that fails, or whose
\* distribution is empty, writes nothing.
C9_SaveOnceLast ==
  /\ Cardinality(OutputsBy("insert_len")) <= 1
  /\ OutputsBy("insert_len") # {} <=> "insert_len" \in completed
  /\ OutputsBy("insert_len") # {} <=> PosOf("insert_len", "persist") # {}
  /\ OutputsBy("insert_len") # {} =>
       /\ StepsOf("insert_len") =
            << <<"insert_len", "load_settings">>, <<"insert_len", "axes">>,
               <<"insert_len", "load">>, <<"insert_len", "compute">>,
               <<"insert_len", "draw">>, <<"insert_len", "persist">> >>
       /\ insert_dist # <<>>
  /\ error.path = "insert_len" => OutputsBy("insert_len") = {}

\* C9 as stated: the insert-length output is saved exactly once per
\* successful run, as the last step, with rendering starting only after load
\* and compute; a failed run writes nothing.
C9_RenderAfterLoad ==
  /\ C9_SaveOnceLast
  /\ \A s \in {"axes", "draw"} :
       Before("insert_len", "load", s) /\ Before("insert_len", "compute", s)

\* C9 amended: the insert-length output is saved exactly once per successful
\* run, as the last step; the drawing of the histogram (title, bars, text,
\* labels) starts only after load and compute, while the empty axes are
\* created before the distribution is loaded; a failed run, or one with an
\* empty distribution, writes nothing.
C9_DrawAfterLoad ==
  /\ C9_SaveOnceLast
  /\ Before("insert_len", "load", "draw")
  /\ Before("insert_len", "compute", "draw")
  /\ Before("insert_len", "axes", "load")

C9_Witness ==
  /\ "insert_len" \in completed
  /\ Cardinality(OutputsBy("insert_len")) = 1
  /\ Len(insert_dist) >= 1

\* C10: the requested paths run one after the other in the order
\* insert-length, posterior, event, whatever the order of the flags; a path
\* starts only after every path started before it has returned normally, so
\* the event path runs only if every requested insert-length and posterior
\* path succeeded.
C10_FixedOrder ==
  /\ \A i, j \in DOMAIN started :
       i < j => Rank(started[i]) < Rank(started[j]) /\ started[i] \in completed
  /\ "event" \in StartedSet =>
       \A q \in {"insert_len", "posterior"} :
         HasFlag(FlagOf(q)) => q \in completed
  /\ \A p \in Paths : (pc = EntryOf(p)) => started[Len(started)] = p

C10_Witness ==
  /\ started = <<"insert_len", "event">>
  /\ \E i, j \in DOMAIN argv :
       i < j /\ argv[i] = "--plot-event" /\ argv[j] = "--plot-insert-len"
====
